---- MODULE Spec2Model ----
(***************************************************************************)
(* Model of the semantic search orchestration core:                        *)
(*   ml/models/registry.py            ModelRegistry                        *)
(*   ml/serving/inference_service.py  InferenceService                     *)
(*   llm/tools/*.py                   ProductSearchTool, ImageRecognition  *)
(*   services/search_service.py       SearchService                        *)
(*                                                                         *)
(* The code runs on one asyncio event loop: a coroutine runs without       *)
(* interruption from one suspension point (an await that really waits) to  *)
(* the next.  Every action below is one such uninterrupted run of code.    *)
(* The suspension points are the awaits on the model's load and predict    *)
(* routines, on the preprocessor, on the LLM and on the product store.     *)
(***************************************************************************)
EXTENDS Integers, Sequences, FiniteSets, TLC

\* ------------------------------------------------------------------ bounds
NumTasks == 2
MaxInst == 3
MaxCalls == 2
MaxOps == 3
NumBreads == 11
MaxStatus == 60

Tasks == 1..NumTasks
Names == {"product_classifier", "ghost_model"}

\* ------------------------------------------------------------ registry data
\* ModelInfo records that register() is called with: the one container.py
\* registers at start-up, and a later re-registration with a new artifact.
ModelInfo(name, path, stage) ==
    [name |-> name, model_path |-> path, stage |-> stage, version |-> "1.0.0"]

RegisterInputs ==
    { <<"dummy_path", "production">>, <<"new_path", "development">> }

Data == {"milk.jpg"}

VARIABLES
    registry,        \* ModelRegistry._registry: name -> ModelInfo
    loaded_models,   \* ModelRegistry._loaded_models: name -> instance
    instPath,        \* the instances constructed so far: id -> path given to load()
    preprocessor,    \* InferenceService.preprocessor is configured
    llm_provider,    \* SearchService.llm_provider is configured
    inference_service, \* SearchService.inference_service is configured
    last_results,    \* ProductSearchTool.last_results
    pc,              \* per task: where its coroutine is suspended
    op,              \* per task: the top-level operation it runs
    frame,           \* per task: the locals of load / predict
    sframe,          \* per task: the locals of semantic_search, and its history
    ret,             \* what the step just taken handed to a caller, if it ended a call
    factoryCalls,    \* history: info.model_class() calls per name
    loadCalls,       \* history: model_instance.load() calls per name
    loadsFinished,   \* history: load routine invocations that have ended
    liveHandles,     \* history: instances load(name) returned since name's last eviction
    staleInst,       \* history: instances whose load was in flight when unload(name) ran
    user_query,      \* the query the callers of semantic_search ask in this run
    callsMade,       \* semantic_search calls started
    prevResult,      \* history: how the previous call of a service without LLM ended
    opsMade          \* registry and inference calls started

regVars == <<registry, loaded_models, instPath>>
cfgVars == <<preprocessor, llm_provider, inference_service, user_query>>
taskVars == <<pc, op, frame>>
regHist == <<factoryCalls, loadCalls, loadsFinished, liveHandles, staleInst>>
searchVars == <<last_results, sframe, callsMade, prevResult>>

\* A call is started on the first idle task: tasks are interchangeable.
FreeTask(t) == pc[t] = "idle" /\ \A u \in Tasks : u < t => pc[u] # "idle"

\* One more registry or inference call is started.
CallStarts == opsMade < MaxOps /\ opsMade' = opsMade + 1
vars == <<registry, loaded_models, instPath, preprocessor, llm_provider,
          inference_service, last_results, pc, op, frame, sframe, ret,
          factoryCalls, loadCalls, loadsFinished, liveHandles, staleInst,
          user_query, callsMade, prevResult, opsMade>>

\* ------------------------------------------------------------------ dicts
DictSet(d, k, v) == [x \in DOMAIN d \cup {k} |-> IF x = k THEN v ELSE d[x]]

DictDel(d, k) == [x \in DOMAIN d \ {k} |-> d[x]]

EmptyDict == [x \in {} |-> 0]

NoFrame == [name |-> "", inst |-> 0, data |-> "", preprocess |-> FALSE,
            input |-> <<>>]

NoRet == [kind |-> "none", op |-> "none", name |-> "", task |-> 0]

ModelOutputs ==
    { [prediction |-> "Leche Entera 1L", confidence |-> 98, metadata |-> "v1"],
      [prediction |-> "unknown_product"] }

\* dict.get(key): the value, or None (the empty tuple) when the key is absent
Get(d, k) == IF k \in DOMAIN d THEN <<d[k]>> ELSE <<>>

\* BasePreprocessor.process: the input converted for the model
Process(data) == <<"processed", data>>

Unprocessed(data) == <<"raw", data>>

\* ------------------------------------------------------------------ strings
\* A string is the tuple of its characters.
Upper == <<"A", "B", "C", "D", "E", "F", "G", "H", "I", "J", "K", "L", "M", "N", "O", "P", "Q", "R", "S", "T", "U", "V", "W", "X", "Y", "Z">>

Lower == <<"a", "b", "c", "d", "e", "f", "g", "h", "i", "j", "k", "l", "m", "n", "o", "p", "q", "r", "s", "t", "u", "v", "w", "x", "y", "z">>

\* str.lower() of one character
LowerChar(c) ==
    IF \E i \in 1..Len(Upper) : Upper[i] = c
    THEN Lower[CHOOSE i \in 1..Len(Upper) : Upper[i] = c]
    ELSE c

\* str.lower()
LowerStr(str) == [i \in 1..Len(str) |-> LowerChar(str[i])]

RECURSIVE LStrip(_)
LStrip(str) == IF str # <<>> /\ Head(str) = " " THEN LStrip(Tail(str)) ELSE str

RECURSIVE RStrip(_)
RStrip(str) ==
    IF str # <<>> /\ str[Len(str)] = " "
    THEN RStrip(SubSeq(str, 1, Len(str) - 1))
    ELSE str

\* str.strip()
Strip(str) == RStrip(LStrip(str))

\* str.replace(word, ""): every occurrence removed, scanning left to right
RECURSIVE RemoveAll(_, _)
RemoveAll(str, word) ==
    IF Len(str) < Len(word) THEN str
    ELSE IF SubSeq(str, 1, Len(word)) = word
         THEN RemoveAll(SubSeq(str, Len(word) + 1, Len(str)), word)
         ELSE <<Head(str)>> \o RemoveAll(Tail(str), word)

\* needle is a substring of hay
Contains(hay, needle) ==
    \E i \in 1..(Len(hay) - Len(needle) + 1) :
        SubSeq(hay, i, i + Len(needle) - 1) = needle

\* The words _fallback_search removes from the query, in its order
StopWords ==
    << <<"t", "i", "e", "n", "e", "n">>,
       <<"h", "a", "y">>,
       <<"e", "x", "i", "s", "t", "e">>,
       <<"b", "u", "s", "c", "a", "r">>,
       <<"q", "u", "i", "e", "r", "o">>,
       <<"s", "t", "o", "c", "k">>,
       <<"?">>,
       <<"¿">> >>

\* The loop of _fallback_search over the first k stop words
RECURSIVE StripWords(_, _)
StripWords(str, k) ==
    IF k = 0 THEN str
    ELSE RemoveAll(LowerStr(StripWords(str, k - 1)), StopWords[k])

\* _fallback_search: the search term derived from the query
FallbackTerm(query) == Strip(StripWords(Strip(query), Len(StopWords)))

\* -------------------------------------------------------------------- store
\* The breads of the store: Pan A, Pan B, ...
Bread(i) ==
    [id |-> 4 + i, product_name |-> <<"P", "a", "n", " ", Upper[i]>>,
     product_sku |-> <<>>, supplier_name |-> "Horno",
     quantity_available |-> i, stock_status |-> 2, unit_cost |-> 50,
     warehouse_location |-> "C1", is_active |-> TRUE]

\* The product_stocks table, in the order of ORDER BY product_name
ProductTable ==
    << [id |-> 1, product_name |-> <<"C", "a", "f", "e", " ", "M", "o", "l", "i", "d", "o">>,
        product_sku |-> <<"CAF-1">>, supplier_name |-> "Tostadores",
        quantity_available |-> 0, stock_status |-> 0, unit_cost |-> 899,
        warehouse_location |-> "A1", is_active |-> TRUE],
       [id |-> 4, product_name |-> <<"L", "e", "c", "h", "e", " ", "D", "e", "s", "c", "r", "e", "m", "a", "d", "a">>,
        product_sku |-> <<"LEC-2">>, supplier_name |-> "Lacteos",
        quantity_available |-> 5, stock_status |-> 2, unit_cost |-> 170,
        warehouse_location |-> "B1", is_active |-> TRUE],
       [id |-> 2, product_name |-> <<"L", "e", "c", "h", "e", " ", "E", "n", "t", "e", "r", "a", " ", "1", "L">>,
        product_sku |-> <<>>, supplier_name |-> "Lacteos",
        quantity_available |-> 12, stock_status |-> 1, unit_cost |-> 150,
        warehouse_location |-> "B2", is_active |-> TRUE],
       [id |-> 3, product_name |-> <<"L", "e", "c", "h", "e", " ", "V", "i", "e", "j", "a">>,
        product_sku |-> <<"LEC-9">>, supplier_name |-> "Lacteos",
        quantity_available |-> 3, stock_status |-> 7, unit_cost |-> 99,
        warehouse_location |-> "B3", is_active |-> FALSE] >>
        \o [i \in 1..NumBreads |-> Bread(i)]

\* The first n elements of a sequence (LIMIT n, products[:n])
Take(seq, n) == SubSeq(seq, 1, IF Len(seq) < n THEN Len(seq) ELSE n)

Limit == 10

AnswerMax == 5

\* ProductService.search_by_name(name, limit, active_only=True)
SearchByName(name, limit) ==
    LET Match(p) == /\ Contains(LowerStr(p.product_name), LowerStr(name))
                    /\ p.is_active
    IN  Take(SelectSeq(ProductTable, Match), limit)

\* Queries that semantic_search is called with
Queries ==
    { <<"¿", "T", "i", "e", "n", "e", "n", " ", "l", "e", "c", "h", "e", " ", "e", "n", " ", "s", "t", "o", "c", "k", "?">>,
      <<"x", "y", "z", "1", "2", "3">>,
      <<"¿", "H", "a", "y", " ", "s", "t", "o", "c", "k", "?">>,
      <<"Q", "u", "i", "e", "r", "o", " ", "p", "a", "n">> }


\* ----------------------------------------------------------- task plumbing
\* The coroutine of task t ends: its caller gets r.
\* ret keeps the operation, its model name and the task.
Finish(t, who, name, r) ==
    /\ pc' = [pc EXCEPT ![t] = "idle"]
    /\ op' = [op EXCEPT ![t] = "none"]
    /\ frame' = [frame EXCEPT ![t] = NoFrame]
    /\ ret' = r @@ [op |-> who, name |-> name, task |-> t]

\* The coroutine of task t suspends at `where` with locals fr.
Suspend(t, who, where, fr) ==
    /\ pc' = [pc EXCEPT ![t] = where]
    /\ op' = [op EXCEPT ![t] = who]
    /\ frame' = [frame EXCEPT ![t] = fr]
    /\ ret' = NoRet

Bump(f, name) == [f EXCEPT ![name] = @ + 1]

\* ------------------------------------------------------------ ModelRegistry
\* register(): the descriptor map after the call
Registered(reg, name, path, stage) == DictSet(reg, name, ModelInfo(name, path, stage))

\* An unload() that leaves the cache as it is
UnloadedKeep(lm, name) == lm

\* unload(): the cache after the call
Unloaded(lm, name) == IF name \in DOMAIN lm THEN DictDel(lm, name) ELSE lm

\* A load() that looks into the cache before the descriptor map
LoadLookupCacheFirst(reg, lm, name) ==
    IF name \in DOMAIN lm THEN "hit"
    ELSE IF name \notin DOMAIN reg THEN "KeyError"
    ELSE "miss"

\* load(): its two checks, in the order the code makes them
LoadLookup(reg, lm, name) ==
    IF name \notin DOMAIN reg THEN "KeyError"
    ELSE IF name \in DOMAIN lm THEN "hit"
    ELSE "miss"

\* is_loaded(name)
is_loaded(name) == name \in DOMAIN loaded_models

\* get_info(name): the descriptor, or None (the empty tuple)
get_info(name) == IF name \in DOMAIN registry THEN <<registry[name]>> ELSE <<>>

\* The stage filters of list_models: None, or a ModelStage
Stages == {"None", "production", "development"}

\* list_models(stage): the descriptors registered, all of them when stage is None
list_models(stage) ==
    {registry[n] : n \in {m \in DOMAIN registry :
                             stage = "None" \/ registry[m].stage = stage}}

\* InferenceService.health_check(model_name): the dict returned
health_check(name) ==
    [model |-> name,
     status |-> IF is_loaded(name) THEN "ready" ELSE "registered",
     registered |-> get_info(name) # <<>>,
     loaded |-> is_loaded(name)]

\* The load() calls suspended in the model's load routine for name.
InFlight(name) == {t \in Tasks : pc[t] = "load_await" /\ frame[t].name = name}

\* A predict that runs the configured preprocessor whatever the flag says
AfterLoadAlwaysProcesses(t, who, fr, inst) ==
    IF preprocessor
    THEN Suspend(t, who, "process_await", [fr EXCEPT !.inst = inst])
    ELSE Suspend(t, who, "predict_await",
                 [fr EXCEPT !.inst = inst, !.input = Unprocessed(fr.data)])

\* InferenceService.predict after registry.load returned the model inst:
\* preprocess if asked and configured, then call model.predict.
AfterLoad(t, who, fr, inst) ==
    IF fr.preprocess /\ preprocessor
    THEN Suspend(t, who, "process_await", [fr EXCEPT !.inst = inst])
    ELSE Suspend(t, who, "predict_await",
                 [fr EXCEPT !.inst = inst, !.input = Unprocessed(fr.data)])

\* ------------------------------------------------------------ SearchService
\* SearchService.__init__: the tools exist only with an LLM provider
search_tool == llm_provider

image_tool == llm_provider /\ inference_service

\* The locals of one semantic_search call.  The rest is history: llmCalls,
\* the LLM calls issued; toolRan, whether product_search was invoked; own, the
\* store result of the call's own last product_search; cause, why the call
\* fell back; toolFailed, whether a tool invocation failed internally;
\* number, the call's rank among the calls made; alone, whether no other call
\* was in flight when it started; bindCalls, the bind_tools calls made; ran,
\* the positions in tool_calls whose tool was run, in order; fbRuns, the
\* _fallback_search runs; fbQueries, the store queries of the fallback.
\* messages is the transcript submitted with the second LLM call.
NoSFrame ==
    [query |-> <<>>, tool_calls |-> <<>>, idx |-> 0, tool_messages |-> <<>>,
     messages |-> <<>>,
     term |-> <<>>, llmCalls |-> 0, toolRan |-> FALSE, own |-> <<>>,
     cause |-> "none", toolFailed |-> FALSE, number |-> 0, alone |-> TRUE,
     bindCalls |-> 0, ran |-> <<>>, fbRuns |-> 0, fbQueries |-> <<>>]

\* serial: the call overlapped no other call (none in flight when it started,
\* none started before it ended)
History(sf) ==
    [path |-> IF sf.cause = "none" THEN "llm" ELSE "fallback",
     cause |-> sf.cause, toolRan |-> sf.toolRan, own |-> sf.own,
     llmCalls |-> sf.llmCalls, toolFailed |-> sf.toolFailed,
     serial |-> sf.alone /\ sf.number >= callsMade,
     bindCalls |-> sf.bindCalls, ran |-> sf.ran, fbRuns |-> sf.fbRuns,
     fbQueries |-> sf.fbQueries, tool_calls |-> sf.tool_calls]

SearchResult(answer, products, query) ==
    [kind |-> "SearchResult", answer |-> answer, products_found |-> products,
     query |-> query]

\* A tool message that does not carry the id of its invocation
ToolMessageNoId(content, id) == [content |-> content, tool_call_id |-> <<>>]

ToolMessage(content, id) == [content |-> content, tool_call_id |-> id]

\* The tool invocations an LLM response may request
ProductSearchCall(term) ==
    [name |-> "product_search", args |-> [search_term |-> term]]

ImageCall == [name |-> "image_recognition", args |-> [image_path |-> "milk.jpg"]]

OtherCall == [name |-> "web_search", args |-> [q |-> "milk"]]

Leche == <<"l", "e", "c", "h", "e">>

Cafe == <<"c", "a", "f", "e">>

Coffee == <<"c", "o", "f", "f", "e", "e">>

\* The tool_calls lists of the LLM responses considered
ToolCallLists ==
    { <<>>,
      <<ProductSearchCall(Leche), ProductSearchCall(Cafe)>>,
      <<ImageCall>>,
      <<OtherCall, ProductSearchCall(Coffee)>> }

\* The search terms that reach the store
SearchTerms == {Leche, Cafe, Coffee} \cup {FallbackTerm(q) : q \in Queries}

\* _fallback_search: the search term of each query, evaluated once
FallbackTermOf == [q \in Queries |-> FallbackTerm(q)]

\* product_service.search_by_name(term, limit=10) for each term that reaches
\* the store, evaluated once
SearchByNameOf == [term \in SearchTerms |-> SearchByName(term, Limit)]

\* response.tool_calls: each invocation carries the id the LLM gave it
WithIds(calls) == [i \in 1..Len(calls) |-> calls[i] @@ [id |-> <<"call", i>>]]

\* The content of an LLM message: a str, or a list of content blocks
Contents == {[str |-> TRUE, body |-> "answer"], [str |-> FALSE, body |-> "blocks"]}

\* An answer that drops the text of the response
AnswerBlank(content) == [text |-> "", converted |-> FALSE]

\* content if isinstance(content, str) else str(content)
AnswerOf(content) == [text |-> content.body, converted |-> ~content.str]

\* The stock status codes the label mapping is applied to
StatusCodes == (0 - MaxStatus)..MaxStatus

\* A label mapping that clamps the codes outside 0..3 to the nearest label
StockStatusTextClamped(status) ==
    CASE status <= 0 -> "Out of Stock"
      [] status = 1 -> "In Stock"
      [] status = 2 -> "Low Stock"
      [] OTHER -> "Overstock"

\* ProductSearchTool._get_stock_status_text
StockStatusText(status) ==
    CASE status = 0 -> "Out of Stock"
      [] status = 1 -> "In Stock"
      [] status = 2 -> "Low Stock"
      [] status = 3 -> "Overstock"
      [] OTHER -> "Unknown"

\* ProductSearchTool._arun: the line of one product
ProductLine(p) ==
    [product_name |-> p.product_name,
     sku |-> IF p.product_sku = <<>> THEN "N/A" ELSE p.product_sku[1],
     quantity_available |-> p.quantity_available,
     status |-> StockStatusText(p.stock_status),
     price |-> p.unit_cost, supplier |-> p.supplier_name,
     location |-> p.warehouse_location]

\* A tool text that lists the products found also when there are none
ProductSearchTextFound(term, products) ==
    [text |-> "Found products", count |-> Len(products),
     lines |-> [i \in 1..Len(products) |-> ProductLine(products[i])]]

\* ProductSearchTool._arun: the text returned to the LLM
ProductSearchText(term, products) ==
    IF products = <<>>
    THEN [text |-> "No products found matching", term |-> term]
    ELSE [text |-> "Found products", count |-> Len(products),
          lines |-> [i \in 1..Len(products) |-> ProductLine(products[i])]]

\* ImageRecognitionTool._arun: the text returned to the LLM for the outcome r
\* of InferenceService.predict (formatting a missing confidence raises too)
ImageToolFailed(r) == r.kind # "PredictionResult" \/ r.confidence = <<>>

ImageToolText(r) ==
    IF ImageToolFailed(r)
    THEN [text |-> "Error analyzing image",
          error |-> IF r.kind = "PredictionResult" THEN "TypeError" ELSE r.kind]
    ELSE [text |-> "Image Analysis Result", product |-> r.prediction,
          confidence |-> r.confidence]

\* An empty result for an unknown tool
UnknownToolBlank == [text |-> ""]

UnknownToolText == [text |-> "Error: Unknown tool"]

\* _fallback_search: the answers
PromptAnswer == [text |-> "Por favor, especifica el producto que buscas."]

\* A fallback answer that names every product found
FallbackAnswerAll(term, products) ==
    IF products = <<>>
    THEN [text |-> "No encontre productos que coincidan con", term |-> term]
    ELSE [text |-> "Encontre producto(s)", count |-> Len(products),
          items |-> [i \in 1..Len(products) |->
                       <<products[i].product_name, products[i].quantity_available>>]]

\* A fallback answer that counts the calls made so far
FallbackAnswerNumbered(term, products) ==
    [text |-> "Encontre producto(s)", count |-> Len(products), call |-> callsMade]

FallbackAnswer(term, products) ==
    IF products = <<>>
    THEN [text |-> "No encontre productos que coincidan con", term |-> term]
    ELSE [text |-> "Encontre producto(s)", count |-> Len(products),
          items |-> [i \in 1..Len(Take(products, AnswerMax)) |->
                       <<products[i].product_name, products[i].quantity_available>>]]

\* semantic_search returns or raises r
SearchEnds(t, sf, r) ==
    /\ Finish(t, "search", "", r @@ History(sf))
    /\ sframe' = [sframe EXCEPT ![t] = NoSFrame]
    /\ prevResult' = IF llm_provider THEN prevResult ELSE r

\* semantic_search suspends at `where`
SearchSuspend(t, where, sf) ==
    /\ Suspend(t, "search", where, NoFrame)
    /\ sframe' = [sframe EXCEPT ![t] = sf]
    /\ prevResult' = prevResult

\* _fallback_search up to its store query
FallbackEnter(t, sf) ==
    LET term == FallbackTermOf[sf.query]
        sf1 == [sf EXCEPT !.fbRuns = @ + 1]
    IN  IF term = <<>>
        THEN SearchEnds(t, sf1, SearchResult(PromptAnswer, <<>>, sf.query))
        ELSE SearchSuspend(t, "fb_store_await",
                           [sf1 EXCEPT !.term = term,
                                       !.fbQueries = Append(@, [name |-> term,
                                                                limit |-> Limit])])

\* A semantic_search without the except clause: the exception reaches the caller
LlmRaisePropagates(t, sf, cause) ==
    SearchEnds(t, [sf EXCEPT !.cause = cause], [kind |-> "LLMError"])

\* A semantic_search whose except clause answers with an apology and no products
LlmRaiseApologizes(t, sf, cause) ==
    SearchEnds(t, [sf EXCEPT !.cause = cause],
               SearchResult([text |-> "Lo siento"], <<>>, sf.query))

\* A semantic_search whose except clause issues the first LLM call again
LlmRaiseRetries(t, sf, cause) ==
    SearchSuspend(t, "llm1_await",
                  [sf EXCEPT !.llmCalls = @ + 1, !.tool_calls = <<>>, !.idx = 0,
                             !.tool_messages = <<>>])

\* semantic_search: an exception leaves _llm_search; the except clause
\* logs it and runs the fallback
LlmRaise(t, sf, cause) == FallbackEnter(t, [sf EXCEPT !.cause = cause])

\* _llm_search: the messages of the second LLM call
Transcript(sf) ==
    << [role |-> "system", content |-> "SYSTEM_PROMPT"],
       [role |-> "user", content |-> sf.query],
       [role |-> "assistant", tool_calls |-> sf.tool_calls] >>
        \o sf.tool_messages

\* The tool loop of _llm_search from invocation i on, over the invocations
\* that end without suspending: an unknown tool name (or image_recognition
\* without an image tool), and image_recognition when registry.load raises
\* KeyError, which the image tool turns into a text.  It stops at the first
\* invocation that suspends (the store query of product_search, the load
\* routine or the predict of the image model) or at the end of the list.
RECURSIVE SkipTools(_, _, _, _, _)
SkipTools(calls, i, msgs, failed, ran) ==
    IF i > Len(calls)
    THEN [idx |-> i, msgs |-> msgs, failed |-> failed, ran |-> ran, stop |-> "end"]
    ELSE IF calls[i].name = "product_search"
    THEN [idx |-> i, msgs |-> msgs, failed |-> failed, ran |-> Append(ran, i),
          stop |-> "store"]
    ELSE IF calls[i].name = "image_recognition" /\ image_tool
    THEN LET look == LoadLookup(registry, loaded_models, "product_classifier")
         IN  IF look = "KeyError"
             THEN SkipTools(calls, i + 1,
                            Append(msgs, ToolMessage(ImageToolText([kind |-> "KeyError"]),
                                                     calls[i].id)),
                            TRUE, Append(ran, i))
             ELSE [idx |-> i, msgs |-> msgs, failed |-> failed,
                   ran |-> Append(ran, i), stop |-> look]
    ELSE SkipTools(calls, i + 1,
                   Append(msgs, ToolMessage(UnknownToolText, calls[i].id)), failed,
                   ran)


\* The tool loop of _llm_search continues at invocation i with the tool
\* messages msgs, up to its next suspension: the store query of
\* product_search, the image model's load routine or predict, or the second
\* LLM call when every invocation is done.
RunTools(t, sf, i, msgs) ==
    LET r == SkipTools(sf.tool_calls, i, msgs, sf.toolFailed, sf.ran)
        sf2 == [sf EXCEPT !.idx = r.idx, !.tool_messages = r.msgs,
                          !.toolFailed = r.failed, !.ran = r.ran]
        fr == [NoFrame EXCEPT !.name = "product_classifier",
                              !.data = sf.tool_calls[r.idx].args.image_path,
                              !.preprocess = FALSE]
    IN  CASE r.stop = "end" ->
               /\ UNCHANGED <<instPath, factoryCalls, loadCalls, liveHandles>>
               /\ SearchSuspend(t, "llm2_await",
                                [sf2 EXCEPT !.llmCalls = @ + 1,
                                            !.messages = Transcript(sf2)])
          [] r.stop = "store" ->
               /\ UNCHANGED <<instPath, factoryCalls, loadCalls, liveHandles>>
               /\ SearchSuspend(t, "tool_store_await", sf2)
          [] r.stop = "hit" ->
               /\ UNCHANGED <<instPath, factoryCalls, loadCalls>>
               /\ liveHandles' = [liveHandles EXCEPT !["product_classifier"] =
                                     @ \cup {loaded_models["product_classifier"]}]
               /\ AfterLoad(t, "search", fr, loaded_models["product_classifier"])
               /\ sframe' = [sframe EXCEPT ![t] = sf2]
               /\ prevResult' = prevResult
          [] r.stop = "miss" ->
               /\ Len(instPath) < MaxInst
               /\ instPath' = Append(instPath, registry["product_classifier"].model_path)
               /\ factoryCalls' = Bump(factoryCalls, "product_classifier")
               /\ loadCalls' = Bump(loadCalls, "product_classifier")
               /\ liveHandles' = liveHandles
               /\ Suspend(t, "search", "load_await",
                          [fr EXCEPT !.inst = Len(instPath) + 1])
               /\ sframe' = [sframe EXCEPT ![t] = sf2]
               /\ prevResult' = prevResult

\* ImageRecognitionTool._arun ends: predict returned or raised r, the tool
\* returns a text either way and the tool loop goes on.
ImageToolEnds(t, r) ==
    LET sf == sframe[t]
    IN  RunTools(t, [sf EXCEPT !.toolFailed = @ \/ ImageToolFailed(r)],
                 sf.idx + 1,
                 Append(sf.tool_messages,
                        ToolMessage(ImageToolText(r), sf.tool_calls[sf.idx].id)))

\* InferenceService.predict ends with outcome r (a PredictionResult or an error)
PredictEnds(t, who, fr, r) ==
    IF who = "search"
    THEN ImageToolEnds(t, r) /\ UNCHANGED <<last_results, callsMade>>
    ELSE /\ Finish(t, who, fr.name, r)
         /\ UNCHANGED <<searchVars, instPath, factoryCalls, loadCalls, liveHandles>>

\* registry.load hands inst to its caller
LoadReturned(t, who, fr, inst) ==
    IF who \in {"load", "reload"}
    THEN Finish(t, who, fr.name, [kind |-> "model", inst |-> inst])
         /\ UNCHANGED searchVars
    ELSE AfterLoad(t, who, fr, inst) /\ UNCHANGED searchVars

\* registry.load raises err to its caller
LoadRaised(t, who, fr, err) ==
    IF who \in {"load", "reload"}
    THEN /\ Finish(t, who, fr.name, [kind |-> err])
         /\ UNCHANGED <<searchVars, instPath, factoryCalls, loadCalls, liveHandles>>
    ELSE PredictEnds(t, who, fr, [kind |-> err])

\* load() from its entry to its return, raise or suspension in the model's
\* load routine.  lm is the cache and live the handle history at entry.
LoadEnter(t, who, fr, lm, live) ==
    LET name == fr.name
        look == LoadLookup(registry, lm, name)
    IN  /\ registry' = registry
        /\ loaded_models' = lm
        /\ CASE look = "KeyError" ->
                  /\ UNCHANGED <<instPath, factoryCalls, loadCalls>>
                  /\ liveHandles' = live
                  /\ Finish(t, who, name, [kind |-> "KeyError"])
                  /\ UNCHANGED searchVars
             [] look = "hit" ->
                  /\ UNCHANGED <<instPath, factoryCalls, loadCalls>>
                  /\ liveHandles' = [live EXCEPT ![name] = @ \cup {lm[name]}]
                  /\ LoadReturned(t, who, fr, lm[name])
             [] look = "miss" ->
                  /\ Len(instPath) < MaxInst
                  /\ instPath' = Append(instPath, registry[name].model_path)
                  /\ factoryCalls' = Bump(factoryCalls, name)
                  /\ loadCalls' = Bump(loadCalls, name)
                  /\ liveHandles' = live
                  /\ Suspend(t, who, "load_await",
                             [fr EXCEPT !.inst = Len(instPath) + 1])
                  /\ UNCHANGED searchVars

\* A register() that also evicts the handle cached for the name
RegisterEvicts(name, path, stage) ==
    /\ CallStarts
    /\ registry' = Registered(registry, name, path, stage)
    /\ loaded_models' = Unloaded(loaded_models, name)
    /\ ret' = NoRet
    /\ UNCHANGED <<instPath, cfgVars, taskVars, regHist, searchVars>>

\* register(name, model_class, model_path, stage)
Register(name, path, stage) ==
    /\ CallStarts
    /\ registry' = Registered(registry, name, path, stage)
    /\ ret' = NoRet
    /\ UNCHANGED <<loaded_models, instPath, cfgVars, taskVars, regHist, searchVars>>

\* An unregister() that removes the descriptor and leaves the cache alone
UnregisterKeepsHandle(name) ==
    /\ CallStarts
    /\ registry' = IF name \in DOMAIN registry
                   THEN DictDel(registry, name) ELSE registry
    /\ ret' = NoRet
    /\ UNCHANGED <<loaded_models, instPath, cfgVars, taskVars, regHist, searchVars>>

\* unregister(name)
Unregister(name) ==
    /\ CallStarts
    /\ loaded_models' = IF name \in DOMAIN loaded_models
                        THEN DictDel(loaded_models, name) ELSE loaded_models
    /\ registry' = IF name \in DOMAIN registry
                   THEN DictDel(registry, name) ELSE registry
    /\ liveHandles' = [liveHandles EXCEPT ![name] = {}]
    /\ ret' = NoRet
    /\ UNCHANGED <<instPath, cfgVars, taskVars, factoryCalls, loadCalls,
                   loadsFinished, staleInst, searchVars>>

\* A query returns r to its caller: no task suspends
Answered(who, name, r) ==
    /\ CallStarts
    /\ ret' = r @@ [op |-> who, name |-> name, task |-> 0]
    /\ UNCHANGED <<regVars, cfgVars, taskVars, regHist, searchVars>>

\* get_info(name) called
GetInfo(name) == Answered("get_info", name, [kind |-> "info", value |-> get_info(name)])

\* list_models(stage) called
ListModels(stage) ==
    Answered("list_models", "",
             [kind |-> "models", stage |-> stage, value |-> list_models(stage)])

\* is_loaded(name) called
IsLoaded(name) == Answered("is_loaded", name, [kind |-> "bool", value |-> is_loaded(name)])

\* A health_check that loads the model it is asked about
HealthCheckLoads(name) ==
    /\ CallStarts
    /\ name \in DOMAIN registry
    /\ Len(instPath) < MaxInst
    /\ instPath' = Append(instPath, registry[name].model_path)
    /\ loaded_models' = DictSet(loaded_models, name, Len(instPath) + 1)
    /\ factoryCalls' = Bump(factoryCalls, name)
    /\ loadCalls' = Bump(loadCalls, name)
    /\ ret' = [kind |-> "health", model |-> name, status |-> "ready",
               registered |-> TRUE, loaded |-> TRUE,
               op |-> "health_check", name |-> name, task |-> 0]
    /\ UNCHANGED <<registry, cfgVars, taskVars, loadsFinished, liveHandles,
                   staleInst, searchVars>>

\* await health_check(model_name): the coroutine never suspends
HealthCheck(name) ==
    Answered("health_check", name, [kind |-> "health"] @@ health_check(name))

\* Instances whose load(name) is suspended in the load routine right now.
Loading(name) == {frame[t].inst : t \in InFlight(name)}

\* await unload(name): the coroutine never suspends
Unload(name) ==
    /\ CallStarts
    /\ loaded_models' = Unloaded(loaded_models, name)
    /\ liveHandles' = [liveHandles EXCEPT ![name] = {}]
    /\ staleInst' = staleInst \cup Loading(name)
    /\ ret' = NoRet
    /\ UNCHANGED <<registry, instPath, cfgVars, taskVars, factoryCalls,
                   loadCalls, loadsFinished, searchVars>>

\* await load(name) called by an idle task
Load(t, name) ==
    /\ FreeTask(t)
    /\ CallStarts
    /\ LoadEnter(t, "load", [NoFrame EXCEPT !.name = name], loaded_models,
                 liveHandles)
    /\ UNCHANGED <<cfgVars, loadsFinished, staleInst>>

\* await reload(name): unload (no suspension) then load
Reload(t, name) ==
    /\ FreeTask(t)
    /\ CallStarts
    /\ staleInst' = staleInst \cup Loading(name)
    /\ LoadEnter(t, "reload", [NoFrame EXCEPT !.name = name],
                 Unloaded(loaded_models, name),
                 [liveHandles EXCEPT ![name] = {}])
    /\ UNCHANGED <<cfgVars, loadsFinished>>

\* The model's load routine returns: load() caches the instance and returns it.
LoadResume(t) ==
    /\ UNCHANGED opsMade
    /\ pc[t] = "load_await"
    /\ LET name == frame[t].name
           inst == frame[t].inst
       IN  /\ loaded_models' = DictSet(loaded_models, name, inst)
           /\ loadsFinished' = Bump(loadsFinished, name)
           /\ liveHandles' = [liveHandles EXCEPT ![name] = @ \cup {inst}]
           /\ LoadReturned(t, op[t], frame[t], inst)
    /\ UNCHANGED <<registry, instPath, cfgVars, factoryCalls, loadCalls, staleInst>>

\* The model's load routine raises: load() passes the error on, caching nothing.
LoadFails(t) ==
    /\ UNCHANGED opsMade
    /\ pc[t] = "load_await"
    /\ loadsFinished' = Bump(loadsFinished, frame[t].name)
    /\ LoadRaised(t, op[t], frame[t], "LoadFailure")
    /\ UNCHANGED <<registry, loaded_models, cfgVars, staleInst>>

\* ---------------------------------------------------------- InferenceService
\* await predict(model_name, data, preprocess) called by an idle task
Predict(t, name, data, preprocess) ==
    /\ FreeTask(t)
    /\ CallStarts
    /\ LoadEnter(t, "predict",
                 [NoFrame EXCEPT !.name = name, !.data = data,
                                 !.preprocess = preprocess],
                 loaded_models, liveHandles)
    /\ UNCHANGED <<cfgVars, loadsFinished, staleInst>>

\* preprocessor.process returns: model.predict is called on its result
ProcessResume(t) ==
    /\ UNCHANGED opsMade
    /\ pc[t] = "process_await"
    /\ Suspend(t, op[t], "predict_await",
               [frame[t] EXCEPT !.input = Process(frame[t].data)])
    /\ UNCHANGED <<regVars, cfgVars, regHist, searchVars>>

\* preprocessor.process raises
ProcessFails(t) ==
    /\ UNCHANGED opsMade
    /\ pc[t] = "process_await"
    /\ PredictEnds(t, op[t], frame[t], [kind |-> "PreprocessFailure"])
    /\ UNCHANGED <<registry, loaded_models, cfgVars, loadsFinished, staleInst>>

\* The PredictionResult built from the model's raw result
PredictionResult(model_name, result) ==
    [kind |-> "PredictionResult", model_name |-> model_name,
     prediction |-> Get(result, "prediction"),
     confidence |-> Get(result, "confidence"),
     metadata |-> Get(result, "metadata")]

\* model.predict returns a raw result
PredictResume(t, result) ==
    /\ UNCHANGED opsMade
    /\ pc[t] = "predict_await"
    /\ PredictEnds(t, op[t], frame[t],
                   PredictionResult(frame[t].name, result)
                       @@ [input |-> frame[t].input])
    /\ UNCHANGED <<registry, loaded_models, cfgVars, loadsFinished, staleInst>>

\* model.predict raises
PredictFails(t) ==
    /\ UNCHANGED opsMade
    /\ pc[t] = "predict_await"
    /\ PredictEnds(t, op[t], frame[t], [kind |-> "PredictionFailure"])
    /\ UNCHANGED <<registry, loaded_models, cfgVars, loadsFinished, staleInst>>

\* ------------------------------------------------- SearchService operations
\* A semantic_search without the entry guard
SemanticSearchNoGuard(t, bindOk) ==
    /\ FreeTask(t)
    /\ callsMade < MaxCalls
    /\ callsMade' = callsMade + 1
    /\ SearchSuspend(t, "llm1_await",
                     [NoSFrame EXCEPT !.query = user_query,
                                      !.number = callsMade + 1,
                                      !.bindCalls = 1, !.llmCalls = 1])
    /\ UNCHANGED <<regVars, cfgVars, regHist, last_results, opsMade>>

\* await semantic_search(query) called by an idle task.  bindOk: whether
\* llm_provider.bind_tools succeeds.
SemanticSearch(t, bindOk) ==
    /\ FreeTask(t)
    /\ callsMade < MaxCalls
    /\ callsMade' = callsMade + 1
    /\ LET sf == [NoSFrame EXCEPT !.query = user_query,
                                  !.number = callsMade + 1,
                                  !.alone = \A u \in Tasks \ {t} : pc[u] = "idle"]
       IN  IF ~llm_provider \/ ~search_tool
           THEN FallbackEnter(t, [sf EXCEPT !.cause = "no_llm"])
           ELSE IF ~bindOk
           THEN LlmRaise(t, [sf EXCEPT !.bindCalls = @ + 1], "bind_tools")
           ELSE SearchSuspend(t, "llm1_await",
                              [sf EXCEPT !.bindCalls = @ + 1, !.llmCalls = @ + 1])
    /\ UNCHANGED <<regVars, cfgVars, regHist, last_results, opsMade>>

\* The first LLM call returns a response
Llm1Resume(t, calls, content) ==
    /\ pc[t] = "llm1_await"
    /\ LET sf == [sframe[t] EXCEPT !.tool_calls = WithIds(calls)]
       IN  IF calls # <<>>
           THEN RunTools(t, sf, 1, <<>>)
           ELSE /\ SearchEnds(t, sf, SearchResult(AnswerOf(content), last_results,
                                                  sf.query))
                /\ UNCHANGED <<instPath, factoryCalls, loadCalls, liveHandles>>
    /\ UNCHANGED <<registry, loaded_models, cfgVars, loadsFinished, staleInst,
                   last_results, callsMade, opsMade>>

\* The first LLM call raises
Llm1Fails(t) ==
    /\ pc[t] = "llm1_await"
    /\ LlmRaise(t, sframe[t], "llm1")
    /\ UNCHANGED <<regVars, cfgVars, regHist, last_results, callsMade, opsMade>>

\* A product_search that adds its rows to those already in the slot
ToolStoreResumeAccumulates(t) ==
    /\ pc[t] = "tool_store_await"
    /\ LET sf == sframe[t]
           call == sf.tool_calls[sf.idx]
           products == SearchByNameOf[call.args.search_term]
       IN  /\ last_results' = last_results \o products
           /\ RunTools(t, [sf EXCEPT !.toolRan = TRUE, !.own = products],
                       sf.idx + 1,
                       Append(sf.tool_messages,
                              ToolMessage(ProductSearchText(call.args.search_term,
                                                            products),
                                          call.id)))
    /\ UNCHANGED <<registry, loaded_models, cfgVars, loadsFinished, staleInst,
                   callsMade, opsMade>>

\* ProductSearchTool._arun: the store query returns
ToolStoreResume(t) ==
    /\ pc[t] = "tool_store_await"
    /\ LET sf == sframe[t]
           call == sf.tool_calls[sf.idx]
           products == SearchByNameOf[call.args.search_term]
       IN  /\ last_results' = products
           /\ RunTools(t, [sf EXCEPT !.toolRan = TRUE, !.own = products],
                       sf.idx + 1,
                       Append(sf.tool_messages,
                              ToolMessage(ProductSearchText(call.args.search_term,
                                                            products),
                                          call.id)))
    /\ UNCHANGED <<registry, loaded_models, cfgVars, loadsFinished, staleInst,
                   callsMade, opsMade>>

\* ProductSearchTool._arun: the store query raises; _arun has no handler,
\* the exception leaves the tool loop and _llm_search
ToolStoreFails(t) ==
    /\ pc[t] = "tool_store_await"
    /\ LlmRaise(t, [sframe[t] EXCEPT !.toolRan = TRUE, !.toolFailed = TRUE],
                "tool_store")
    /\ UNCHANGED <<regVars, cfgVars, regHist, last_results, callsMade, opsMade>>

\* The second LLM call returns the final response
Llm2Resume(t, content) ==
    /\ pc[t] = "llm2_await"
    /\ SearchEnds(t, sframe[t],
                  SearchResult(AnswerOf(content), last_results, sframe[t].query))
    /\ UNCHANGED <<regVars, cfgVars, regHist, last_results, callsMade, opsMade>>

\* The second LLM call raises
Llm2Fails(t) ==
    /\ pc[t] = "llm2_await"
    /\ LlmRaise(t, sframe[t], "llm2")
    /\ UNCHANGED <<regVars, cfgVars, regHist, last_results, callsMade, opsMade>>

\* A fallback that returns only the products its answer names
FbStoreResumeTruncates(t) ==
    /\ pc[t] = "fb_store_await"
    /\ LET sf == sframe[t]
           products == SearchByNameOf[sf.term]
       IN  SearchEnds(t, sf, SearchResult(FallbackAnswer(sf.term, products),
                                          Take(products, AnswerMax), sf.query))
    /\ UNCHANGED <<regVars, cfgVars, regHist, last_results, callsMade, opsMade>>

\* A fallback that returns the rows in the tool's slot when there are any
FbStoreResumeFromSlot(t) ==
    /\ pc[t] = "fb_store_await"
    /\ LET sf == sframe[t]
           products == IF last_results # <<>> THEN last_results
                       ELSE SearchByNameOf[sf.term]
       IN  SearchEnds(t, sf, SearchResult(FallbackAnswer(sf.term, products),
                                          products, sf.query))
    /\ UNCHANGED <<regVars, cfgVars, regHist, last_results, callsMade, opsMade>>

\* _fallback_search: the store query returns
FbStoreResume(t) ==
    /\ pc[t] = "fb_store_await"
    /\ LET sf == sframe[t]
           products == SearchByNameOf[sf.term]
       IN  SearchEnds(t, sf, SearchResult(FallbackAnswer(sf.term, products),
                                          products, sf.query))
    /\ UNCHANGED <<regVars, cfgVars, regHist, last_results, callsMade, opsMade>>

\* _fallback_search: the store query raises, and so does semantic_search
FbStoreFails(t) ==
    /\ pc[t] = "fb_store_await"
    /\ SearchEnds(t, sframe[t], [kind |-> "StoreError"])
    /\ UNCHANGED <<regVars, cfgVars, regHist, last_results, callsMade, opsMade>>

\* ------------------------------------------------------------ specification
InitRegistry ==
    /\ registry = Registered(EmptyDict, "product_classifier", "dummy_path", "production")
    /\ loaded_models = EmptyDict
    /\ instPath = <<>>
    /\ factoryCalls = [n \in Names |-> 0]
    /\ loadCalls = [n \in Names |-> 0]
    /\ loadsFinished = [n \in Names |-> 0]
    /\ liveHandles = [n \in Names |-> {}]
    /\ staleInst = {}

InitTasks ==
    /\ pc = [t \in Tasks |-> "idle"]
    /\ op = [t \in Tasks |-> "none"]
    /\ frame = [t \in Tasks |-> NoFrame]
    /\ ret = NoRet

Init ==
    /\ InitRegistry
    /\ InitTasks
    /\ preprocessor \in BOOLEAN
    /\ llm_provider = FALSE
    /\ inference_service = TRUE
    /\ last_results = <<>>
    /\ sframe = [t \in Tasks |-> NoSFrame]
    /\ prevResult = [kind |-> "none"]
    /\ user_query = <<>>
    /\ callsMade = 0
    /\ opsMade = 0

Next ==
    \/ \E n \in Names, i \in RegisterInputs : Register(n, i[1], i[2])
    \/ \E n \in Names : Unregister(n)
    \/ \E n \in Names : Unload(n)
    \/ \E n \in Names : GetInfo(n)
    \/ \E st \in Stages : ListModels(st)
    \/ \E n \in Names : IsLoaded(n)
    \/ \E n \in Names : HealthCheck(n)
    \/ \E t \in Tasks, n \in Names : Load(t, n)
    \/ \E t \in Tasks, n \in Names : Reload(t, n)
    \/ \E t \in Tasks : LoadResume(t)
    \/ \E t \in Tasks : LoadFails(t)
    \/ \E t \in Tasks, n \in Names, d \in Data, p \in BOOLEAN : Predict(t, n, d, p)
    \/ \E t \in Tasks : ProcessResume(t)
    \/ \E t \in Tasks : ProcessFails(t)
    \/ \E t \in Tasks, r \in ModelOutputs : PredictResume(t, r)
    \/ \E t \in Tasks : PredictFails(t)

Spec == Init /\ [][Next]_vars

\* The search service of container.py: product_classifier is registered at
\* start-up (and may have been unregistered since), no preprocessor.
InitSearch ==
    /\ InitTasks
    /\ registry \in {EmptyDict,
                     Registered(EmptyDict, "product_classifier", "dummy_path",
                                "production")}
    /\ loaded_models = EmptyDict
    /\ instPath = <<>>
    /\ factoryCalls = [n \in Names |-> 0]
    /\ loadCalls = [n \in Names |-> 0]
    /\ loadsFinished = [n \in Names |-> 0]
    /\ liveHandles = [n \in Names |-> {}]
    /\ staleInst = {}
    /\ preprocessor = FALSE
    /\ llm_provider \in BOOLEAN
    /\ inference_service \in BOOLEAN
    /\ last_results = <<>>
    /\ sframe = [t \in Tasks |-> NoSFrame]
    /\ prevResult = [kind |-> "none"]
    /\ user_query \in Queries
    /\ callsMade = 0
    /\ opsMade = 0

NextSearch ==
    \/ \E t \in Tasks, b \in BOOLEAN : SemanticSearch(t, b)
    \/ \E t \in Tasks, c \in ToolCallLists, m \in Contents : Llm1Resume(t, c, m)
    \/ \E t \in Tasks : Llm1Fails(t)
    \/ \E t \in Tasks : ToolStoreResume(t)
    \/ \E t \in Tasks : ToolStoreFails(t)
    \/ \E t \in Tasks : LoadResume(t)
    \/ \E t \in Tasks : LoadFails(t)
    \/ \E t \in Tasks, r \in ModelOutputs : PredictResume(t, r)
    \/ \E t \in Tasks : PredictFails(t)
    \/ \E t \in Tasks, m \in Contents : Llm2Resume(t, m)
    \/ \E t \in Tasks : Llm2Fails(t)
    \/ \E t \in Tasks : FbStoreResume(t)
    \/ \E t \in Tasks : FbStoreFails(t)

SpecSearch == InitSearch /\ [][NextSearch]_vars

\* _get_stock_status_text(status) called on the tool of a service with an LLM
GetStockStatusText(status) ==
    /\ search_tool
    /\ ret' = [kind |-> "status_text", status |-> status,
               text |-> StockStatusText(status),
               op |-> "_get_stock_status_text", name |-> "", task |-> 0]
    /\ UNCHANGED <<regVars, cfgVars, taskVars, regHist, searchVars, opsMade>>

InitStatusText == InitSearch /\ llm_provider

NextStatusText == \E status \in StatusCodes : GetStockStatusText(status)

SpecStatusText == InitStatusText /\ [][NextStatusText]_vars

\* ------------------------------------------------------------------ claims
\* Task t ends a call in this step.
Ends(t) == ret'.kind # "none" /\ ret'.task = t

\* The causes for which the except clause of semantic_search runs the fallback
LlmCauses == {"bind_tools", "llm1", "tool_store", "llm2"}

\* What _fallback_search(query) returns when its store query succeeds
FallbackResult(query) ==
    LET term == FallbackTermOf[query]
        products == SearchByNameOf[term]
    IN  IF term = <<>>
        THEN SearchResult(PromptAnswer, <<>>, query)
        ELSE SearchResult(FallbackAnswer(term, products), products, query)

\* C1: when two or more load(name) calls are in flight at the same time for a
\* name whose load routine has never finished before, the model factory and
\* the load routine have been invoked exactly once for that name.
C1_ConcurrentLoadsLoadOnce ==
    \A n \in Names :
        (loadsFinished[n] = 0 /\ Cardinality(InFlight(n)) >= 2)
            => (factoryCalls[n] = 1 /\ loadCalls[n] = 1)

\* C2: on a service with an LLM, a call that overlapped no other call, took
\* the LLM path and never invoked product_search returns an empty
\* products_found, whatever the earlier calls found.
C2_NoToolNoProducts ==
    (/\ ret.op = "search" /\ ret.kind = "SearchResult"
     /\ ret.path = "llm" /\ ret.serial /\ ~ret.toolRan)
        => ret.products_found = <<>>

\* C3: a call that took the LLM path and invoked product_search returns as
\* products_found the store result of its own last product_search, also when
\* another call interleaved with it.
C3_OwnProductsFound ==
    (/\ ret.op = "search" /\ ret.kind = "SearchResult"
     /\ ret.path = "llm" /\ ret.toolRan)
        => ret.products_found = ret.own

\* C4: semantic_search ends with a SearchResult whether the LLM is missing,
\* tool binding fails, the first or second LLM call fails or the image model
\* is not registered or fails to load or predict; the one error it can end
\* with is that of the fallback's own store query.
C4_AlwaysSearchResult ==
    ret.op = "search" =>
        \/ ret.kind = "SearchResult"
        \/ ret.kind = "StoreError" /\ ret.path = "fallback"

\* C4 witness: the image tool failed inside a call, the second LLM call then
\* raised, and the call still returned a SearchResult.
C4_Witness ==
    /\ ret.op = "search" /\ ret.kind = "SearchResult"
    /\ ret.toolFailed /\ ~ret.toolRan /\ ret.cause = "llm2"

\* C5: when a step of the LLM path raises, semantic_search ends as the
\* fallback search for the same query ends: with exactly the fallback's
\* SearchResult, the LLM failure not surfaced (or with the error of the
\* fallback's own store query).
C5_LlmFailureGivesFallback ==
    (ret.op = "search" /\ ret.cause \in LlmCauses) =>
        \/ ret.kind = "StoreError"
        \/ /\ ret.kind = "SearchResult"
           /\ [f \in {"kind", "answer", "products_found", "query"} |-> ret[f]]
                  = FallbackResult(user_query)

\* C5 witness: a call whose product_search raised after an earlier
\* product_search had filled the grounding slot returned the products of the
\* fallback, which are not those of the slot.
C5_Witness ==
    /\ ret.op = "search" /\ ret.kind = "SearchResult"
    /\ ret.cause = "tool_store"
    /\ ret.products_found # <<>>
    /\ last_results # <<>>
    /\ ret.products_found # last_results

\* C6: a failure inside a tool invocation does not abort the conversation:
\* a call in which a tool invocation failed has issued the second LLM call
\* and did not fall back because of the tool.
C6_ToolFailureKeepsConversation ==
    (ret.op = "search" /\ ret.toolFailed)
        => (ret.llmCalls = 2 /\ ret.cause # "tool_store")

\* C7: at most one live loaded instance per name: the load(name) calls that
\* returned since name was last evicted all returned the same instance, and
\* it is the instance the cache holds for name.
C7_OneLiveHandlePerName ==
    \A n \in Names :
        /\ Cardinality(liveHandles[n]) <= 1
        /\ liveHandles[n] # {} => (is_loaded(n) /\ liveHandles[n] = {loaded_models[n]})

\* C8: unload(name) and reload(name) are serialized against an in-flight
\* load(name): the cache never holds an instance whose load was suspended in
\* the load routine when unload(name) or reload(name) ran.
C8_UnloadSerializedWithLoad ==
    \A n \in DOMAIN loaded_models : loaded_models[n] \notin staleInst

\* C9: a load(name) that completes successfully leaves is_loaded(name) true;
\* unload(name) leaves is_loaded(name) false and the descriptor in place; a
\* load(name) of a registered name that is not cached constructs a new
\* instance and calls its load routine with the descriptor's model_path.
C9_LoadUnloadLoad ==
    [][ /\ \A t \in Tasks :
              (Ends(t) /\ ret'.kind = "model" /\ ret'.op \in {"load", "reload"})
                  => /\ ret'.name \in DOMAIN loaded_models'
                     /\ loaded_models'[ret'.name] = ret'.inst
        /\ \A n \in Names :
              Unload(n) => /\ n \notin DOMAIN loaded_models'
                           /\ registry' = registry
        /\ \A t \in Tasks, n \in Names :
              (Load(t, n) /\ n \in DOMAIN registry /\ ~is_loaded(n))
                  => /\ instPath' = Append(instPath, registry[n].model_path)
                     /\ factoryCalls'[n] = factoryCalls[n] + 1
                     /\ loadCalls'[n] = loadCalls[n] + 1
                     /\ pc'[t] = "load_await"
                     /\ frame'[t].inst = Len(instPath')
                     /\ frame'[t].inst \notin {loaded_models'[m] : m \in DOMAIN loaded_models'}
      ]_vars

\* C9 witness: name was loaded, unloaded and loaded again: the second
\* instance, loaded from the descriptor's path, is the one cached.
C9_Witness ==
    \E n \in DOMAIN registry :
        /\ is_loaded(n) /\ loaded_models[n] = 2
        /\ instPath = <<registry[n].model_path, registry[n].model_path>>
        /\ loadsFinished[n] = 2
        /\ liveHandles[n] = {2}
        /\ staleInst = {}
        /\ ret.kind = "model" /\ ret.op = "load" /\ ret.inst = 2

\* C10: predict(model_name, data) for a name with no descriptor fails with
\* the not-registered error at once: the descriptor map and the cache are
\* unchanged, no model is constructed or loaded, and the coroutine reaches
\* neither the preprocessor nor a model's predict.
C10_PredictUnregistered ==
    [][ \A t \in Tasks, n \in Names, d \in Data, p \in BOOLEAN :
            (Predict(t, n, d, p) /\ n \notin DOMAIN registry)
                => /\ Ends(t)
                   /\ ret'.kind = "KeyError"
                   /\ pc'[t] = "idle"
                   /\ registry' = registry
                   /\ loaded_models' = loaded_models
                   /\ instPath' = instPath
                   /\ factoryCalls' = factoryCalls
                   /\ loadCalls' = loadCalls
      ]_vars

\* C10 witness: a predict call has ended with the not-registered error for a
\* name that is not registered although an instance is cached for it.
C10_Witness ==
    /\ ret.kind = "KeyError" /\ ret.op = "predict"
    /\ ret.name \notin DOMAIN registry
    /\ is_loaded(ret.name)

\* C11: when the model's load routine fails during load(name), the caller of
\* load gets the failure, no handle is cached for name afterwards and the
\* descriptor map is as it was.
C11_LoadFailureLeavesNoHandle ==
    [][ \A t \in Tasks :
            (LoadFails(t) /\ op[t] \in {"load", "reload"})
                => /\ Ends(t)
                   /\ ret'.kind = "LoadFailure"
                   /\ ret'.name \notin DOMAIN loaded_models'
                   /\ registry' = registry
      ]_vars

\* The answer, products and query of a call's outcome
ResultOf(r) == [f \in {"kind", "answer", "products_found", "query"} |-> r[f]]

\* C12: on a service without an LLM provider semantic_search goes straight to
\* the fallback: no call is ever suspended anywhere but in the fallback's
\* store query, none binds tools, issues an LLM call or runs a tool, and an
\* ended call returned the fallback result of its query.
C12_NoLlmStraightToFallback ==
    ~llm_provider =>
        /\ \A t \in Tasks :
              /\ pc[t] \in {"idle", "fb_store_await"}
              /\ sframe[t].bindCalls = 0 /\ sframe[t].llmCalls = 0
              /\ sframe[t].ran = <<>>
        /\ ret.op = "search" =>
              /\ ret.cause = "no_llm" /\ ret.fbRuns = 1
              /\ ret.bindCalls = 0 /\ ret.llmCalls = 0 /\ ret.ran = <<>>
              /\ \/ ret.kind = "StoreError"
                 \/ /\ ret.kind = "SearchResult"
                    /\ ResultOf(ret) = FallbackResult(user_query)

\* C12 witness: a call on a service without LLM returned products.
C12_Witness ==
    /\ ~llm_provider
    /\ ret.op = "search" /\ ret.kind = "SearchResult"
    /\ ret.products_found # <<>>
    /\ ret.fbRuns = 1 /\ ret.llmCalls = 0

\* C13: a call is suspended in its second LLM call only when the first
\* response requested a tool and every requested invocation has its result:
\* the transcript submitted is the system prompt, the user query, the
\* assistant's tool-request message and one tool message per requested
\* invocation, in order, each with that invocation's id.
C13_SecondCallAfterAllTools ==
    /\ \A t \in Tasks :
          pc[t] = "llm2_await" =>
              LET sf == sframe[t]
                  n == Len(sf.tool_calls)
              IN  /\ n >= 1
                  /\ sf.idx = n + 1
                  /\ sf.llmCalls = 2
                  /\ Len(sf.messages) = 3 + n
                  /\ sf.messages[1].role = "system"
                  /\ sf.messages[2] = [role |-> "user", content |-> user_query]
                  /\ sf.messages[3] = [role |-> "assistant",
                                       tool_calls |-> sf.tool_calls]
                  /\ \A i \in 1..n :
                        sf.messages[3 + i].tool_call_id = sf.tool_calls[i].id
    /\ ret.op = "search" /\ ret.llmCalls = 2 => ret.tool_calls # <<>>

\* C13 witness: a call whose first response requested two invocations, one
\* of which ran a tool, is suspended in its second LLM call.
C13_Witness ==
    \E t \in Tasks :
        /\ pc[t] = "llm2_await"
        /\ Len(sframe[t].tool_calls) = 2
        /\ Len(sframe[t].ran) = 1

\* C14: when the first LLM response requests no tool, the call ends there:
\* it returns a SearchResult whose answer is the text of that response, having
\* issued one LLM call and run no tool.
C14_NoToolDirectAnswer ==
    [][ \A t \in Tasks, m \in Contents :
            Llm1Resume(t, <<>>, m)
                => /\ Ends(t)
                   /\ ret'.kind = "SearchResult"
                   /\ ret'.path = "llm"
                   /\ ret'.llmCalls = 1
                   /\ ret'.ran = <<>> /\ ~ret'.toolRan
                   /\ ret'.answer.text = m.body
                   /\ ret'.answer.converted = ~m.str
      ]_vars

\* C14 witness: a call ended with the text of its first response after one
\* LLM call and no tool.
C14_Witness ==
    /\ ret.op = "search" /\ ret.kind = "SearchResult" /\ ret.path = "llm"
    /\ ret.llmCalls = 1 /\ ret.tool_calls = <<>>
    /\ ret.answer.text = "answer"

\* A requested invocation for which the orchestrator has no tool
UnknownTool(call) ==
    /\ call.name # "product_search"
    /\ ~(call.name = "image_recognition" /\ image_tool)

\* C15: a requested invocation of an unknown tool (or of image_recognition
\* without an image tool) gets the tool result "Error: Unknown tool" with its
\* invocation id and runs no tool; a turn that requested only such
\* invocations goes on to the second LLM call and falls back only if that
\* call fails.
C15_UnknownToolPlaceholder ==
    \A t \in Tasks :
        LET sf == sframe[t]
            n == Len(sf.tool_calls)
        IN  /\ \A i \in 1..n :
                  (UnknownTool(sf.tool_calls[i]) /\ i < sf.idx)
                      => /\ i <= Len(sf.tool_messages)
                         /\ sf.tool_messages[i] =
                                [content |-> [text |-> "Error: Unknown tool"],
                                 tool_call_id |-> sf.tool_calls[i].id]
                         /\ \A j \in 1..Len(sf.ran) : sf.ran[j] # i
            /\ (n >= 1 /\ \A i \in 1..n : UnknownTool(sf.tool_calls[i]))
                  => /\ sf.llmCalls = 2
                     /\ sf.cause \in {"none", "llm2"}
                     /\ pc[t] \in {"llm2_await", "fb_store_await"}
                     /\ pc[t] = "fb_store_await" => sf.cause = "llm2"

\* C15 witness: image_recognition was requested on a service without image
\* tool and the call is suspended in its second LLM call.
C15_Witness ==
    \E t \in Tasks :
        /\ pc[t] = "llm2_await"
        /\ ~image_tool
        /\ Len(sframe[t].tool_calls) = 1
        /\ sframe[t].tool_calls[1].name = "image_recognition"
        /\ sframe[t].ran = <<>>

\* No element occurs twice in seq
NoRepeat(seq) == \A i, j \in 1..Len(seq) : seq[i] = seq[j] => i = j

\* The counts of the steps a call has taken stay within one attempt each
OneAttempt(h) ==
    /\ h.bindCalls <= 1
    /\ h.llmCalls <= 2
    /\ NoRepeat(h.ran)
    /\ \A i \in 1..Len(h.ran) : h.ran[i] \in 1..Len(h.tool_calls)
    /\ h.fbRuns <= 1
    /\ Len(h.fbQueries) <= h.fbRuns

\* C16: nothing is retried: a call, in flight or ended, has issued at most
\* two LLM calls, run each requested invocation at most once and run the
\* fallback, with its one store query, at most once.
C16_NothingRetried ==
    /\ \A t \in Tasks : OneAttempt(sframe[t])
    /\ ret.op = "search" => OneAttempt(ret)

\* C16 witness: a call issued both LLM calls, ran a tool, fell back once and
\* queried the store once in the fallback.
C16_Witness ==
    /\ ret.op = "search"
    /\ ret.llmCalls = 2 /\ Len(ret.ran) = 1
    /\ ret.fbRuns = 1 /\ Len(ret.fbQueries) = 1

\* C17: a call that ended on the fallback path with a SearchResult: when the
\* stripped term is empty the store was not queried, the answer asks for the
\* product and products_found is empty; otherwise the store was queried once
\* with the term and limit 10, and the answer is the not-found text naming
\* the term when nothing was returned, else it gives the number n of products
\* returned and names the first min(5, n) of them with their quantities.
C17_FallbackAnswer ==
    (ret.op = "search" /\ ret.path = "fallback" /\ ret.kind = "SearchResult") =>
        LET term == FallbackTermOf[user_query]
            ps == ret.products_found
            n == Len(ps)
            k == IF n < 5 THEN n ELSE 5
        IN  IF term = <<>>
            THEN /\ ret.fbQueries = <<>>
                 /\ ret.answer =
                        [text |-> "Por favor, especifica el producto que buscas."]
                 /\ ps = <<>>
            ELSE /\ ret.fbQueries = <<[name |-> term, limit |-> 10]>>
                 /\ ps = SearchByNameOf[term]
                 /\ IF n = 0
                    THEN ret.answer =
                             [text |-> "No encontre productos que coincidan con",
                              term |-> term]
                    ELSE /\ ret.answer.text = "Encontre producto(s)"
                         /\ ret.answer.count = n
                         /\ Len(ret.answer.items) = k
                         /\ \A i \in 1..k :
                               ret.answer.items[i] =
                                   <<ps[i].product_name, ps[i].quantity_available>>

\* C17 witness: the fallback found ten products and its answer names five.
C17_Witness ==
    /\ ret.op = "search" /\ ret.path = "fallback" /\ ret.kind = "SearchResult"
    /\ ret.answer.text = "Encontre producto(s)"
    /\ ret.answer.count = 10
    /\ Len(ret.answer.items) = 5

\* C18: products_found is the store's sequence as returned: on the fallback
\* path all of what the store returned for the fallback term; on the LLM path
\* the slot of the product-search tool, which holds nothing or exactly what
\* the store returned to the tool for a requested term (for a call that
\* overlapped no other call and ran the tool: to its own last invocation).
C18_ProductsAsStoreReturned ==
    (ret.op = "search" /\ ret.kind = "SearchResult") =>
        IF ret.path = "fallback"
        THEN ret.products_found =
                 IF FallbackTermOf[user_query] = <<>> THEN <<>>
                 ELSE SearchByNameOf[FallbackTermOf[user_query]]
        ELSE /\ ret.products_found = last_results
             /\ \/ ret.products_found = <<>>
                \/ \E term \in {Leche, Cafe} :
                      ret.products_found = SearchByNameOf[term]
             /\ (ret.serial /\ ret.toolRan) => ret.products_found = ret.own

\* C18 witness: a call that fell back after an LLM failure returned the ten
\* products of the store, more than its answer names.
C18_Witness ==
    /\ ret.op = "search" /\ ret.kind = "SearchResult"
    /\ ret.cause \in LlmCauses
    /\ Len(ret.products_found) = Limit
    /\ Len(ret.products_found) > Len(ret.answer.items)

\* C19: on a service without LLM, a call that returns a SearchResult after
\* an earlier call did returns the same products_found and the same answer
\* as that call, and leaves the shared grounding slot as it was.
C19_FallbackIdempotent ==
    [][ \A t \in Tasks :
            (/\ Ends(t) /\ ret'.op = "search"
             /\ ~llm_provider
             /\ prevResult.kind = "SearchResult"
             /\ ret'.kind = "SearchResult")
                => /\ ret'.products_found = prevResult.products_found
                   /\ ret'.answer = prevResult.answer
                   /\ ret'.query = prevResult.query
                   /\ last_results' = last_results
      ]_vars

\* C19 witness: two calls on a service without LLM have ended, the second
\* with products.
C19_Witness ==
    /\ ~llm_provider
    /\ callsMade = 2 /\ \A t \in Tasks : pc[t] = "idle"
    /\ ret.op = "search" /\ ret.kind = "SearchResult"
    /\ prevResult.kind = "SearchResult"
    /\ Len(ret.products_found) > 1

\* C20: whenever the cache holds a handle for name, load(name) returns that
\* handle at once and calls neither the model factory nor a load routine,
\* whether or not name is still registered.
C20_CachedHandleReturned ==
    [][ \A t \in Tasks, n \in Names :
            (Load(t, n) /\ is_loaded(n))
                => /\ Ends(t)
                   /\ ret'.kind = "model"
                   /\ ret'.inst = loaded_models[n]
                   /\ instPath' = instPath
                   /\ factoryCalls' = factoryCalls
                   /\ loadCalls' = loadCalls
      ]_vars

\* C21: register(name, ...) inserts or overwrites the descriptor of name and
\* nothing else: the cache and the descriptors of the other names are as they
\* were and nothing is constructed or loaded; a load(name) of a registered
\* name with a cached handle returns that handle, also when the descriptor
\* now names another artifact location than the one the handle was loaded from.
C21_RegisterKeepsCache ==
    [][ /\ \A n \in Names, i \in RegisterInputs :
              Register(n, i[1], i[2])
                  => /\ loaded_models' = loaded_models
                     /\ DOMAIN registry' = DOMAIN registry \cup {n}
                     /\ registry'[n] = ModelInfo(n, i[1], i[2])
                     /\ \A m \in DOMAIN registry \ {n} : registry'[m] = registry[m]
                     /\ instPath' = instPath
                     /\ factoryCalls' = factoryCalls
                     /\ loadCalls' = loadCalls
        /\ \A t \in Tasks, n \in Names :
              (Load(t, n) /\ n \in DOMAIN registry /\ is_loaded(n))
                  => /\ Ends(t)
                     /\ ret'.kind = "model"
                     /\ ret'.inst = loaded_models[n]
                     /\ loaded_models' = loaded_models
                     /\ instPath' = instPath
      ]_vars

\* C21 witness: load(name) returned the cached handle, which was loaded from
\* another artifact location than the one the descriptor names now.
C21_Witness ==
    /\ ret.op = "load" /\ ret.kind = "model"
    /\ ret.name \in DOMAIN registry
    /\ is_loaded(ret.name) /\ loaded_models[ret.name] = ret.inst
    /\ instPath[ret.inst] = "dummy_path"
    /\ registry[ret.name].model_path = "new_path"
    /\ factoryCalls[ret.name] = 1

\* C22: unregister(name) removes the descriptor and the cached handle of
\* name: right after it get_info(name) is absent and is_loaded(name) is
\* false; for a name neither registered nor cached it changes nothing; the
\* entries of the other names are as they were; a load(name) of a name
\* without descriptor fails as not registered.
C22_UnregisterRemovesBoth ==
    [][ /\ \A n \in Names :
              Unregister(n)
                  => /\ n \notin DOMAIN registry'
                     /\ n \notin DOMAIN loaded_models'
                     /\ DOMAIN registry' = DOMAIN registry \ {n}
                     /\ DOMAIN loaded_models' = DOMAIN loaded_models \ {n}
                     /\ \A m \in DOMAIN registry' : registry'[m] = registry[m]
                     /\ \A m \in DOMAIN loaded_models' :
                           loaded_models'[m] = loaded_models[m]
                     /\ (n \notin DOMAIN registry /\ ~is_loaded(n))
                           => (registry' = registry /\ loaded_models' = loaded_models)
        /\ \A t \in Tasks, n \in Names :
              (Load(t, n) /\ n \notin DOMAIN registry)
                  => /\ Ends(t)
                     /\ ret'.kind = "KeyError"
                     /\ instPath' = instPath
      ]_vars

\* C22 witness: a name that had been loaded was unregistered, and the
\* load(name) that followed failed as not registered with nothing cached.
C22_Witness ==
    /\ ret.op = "load" /\ ret.kind = "KeyError"
    /\ ret.name \notin DOMAIN registry
    /\ ~is_loaded(ret.name)
    /\ loadsFinished[ret.name] = 1
    /\ staleInst = {}

\* The registry is as it was and nothing was constructed or loaded in this step.
RegistryUntouched ==
    /\ registry' = registry
    /\ loaded_models' = loaded_models
    /\ instPath' = instPath
    /\ factoryCalls' = factoryCalls
    /\ loadCalls' = loadCalls
    /\ pc' = pc

\* C23: get_info, list_models, is_loaded and health_check are pure queries:
\* they leave the descriptor map and the cache unchanged and invoke no model
\* factory or load routine; health_check reports registered exactly when a
\* descriptor exists, loaded exactly when a handle is cached and status
\* "ready" exactly when loaded.
C23_QueriesArePure ==
    [][ /\ \A n \in Names :
              /\ GetInfo(n)
                    => /\ RegistryUntouched
                       /\ (ret'.value = <<>>) <=> (n \notin DOMAIN registry)
                       /\ n \in DOMAIN registry => ret'.value = <<registry[n]>>
              /\ IsLoaded(n)
                    => /\ RegistryUntouched
                       /\ ret'.value <=> (n \in DOMAIN loaded_models)
              /\ HealthCheck(n)
                    => /\ RegistryUntouched
                       /\ ret'.registered <=> (n \in DOMAIN registry)
                       /\ ret'.loaded <=> (n \in DOMAIN loaded_models)
                       /\ (ret'.status = "ready") <=> ret'.loaded
        /\ \A st \in Stages :
              ListModels(st)
                  => /\ RegistryUntouched
                     /\ \A n \in DOMAIN registry :
                           (registry[n] \in ret'.value)
                               <=> (st = "None" \/ registry[n].stage = st)
      ]_vars

\* C23 witness: health_check answered ready for a loaded model while another
\* load was in flight, and one instance per load call has been constructed.
C23_Witness ==
    /\ ret.op = "health_check"
    /\ ret.loaded /\ ret.registered /\ ret.status = "ready"
    /\ is_loaded(ret.name)
    /\ \E t \in Tasks : pc[t] = "load_await"
    /\ Len(instPath) = 2 /\ opsMade = 3

\* C24: when the store query of a product-search invocation returns, the
\* tool's last-results slot becomes exactly the sequence the store returned
\* for the invocation's term, whatever it held before; when the store
\* returned no rows the slot is empty and the tool's text is "No products
\* found matching '<term>'" with the invocation's term.
C24_SlotIsStoreResult ==
    [][ \A t \in Tasks :
            ToolStoreResume(t)
                => LET sf == sframe[t]
                       term == sf.tool_calls[sf.idx].args.search_term
                       rows == SearchByNameOf[term]
                       msg == sframe'[t].tool_messages[sf.idx]
                   IN  /\ last_results' = rows
                       /\ msg.tool_call_id = sf.tool_calls[sf.idx].id
                       /\ rows = <<>>
                             => /\ last_results' = <<>>
                                /\ msg.content =
                                       [text |-> "No products found matching",
                                        term |-> term]
                       /\ rows # <<>>
                             => /\ msg.content.text = "Found products"
                                /\ msg.content.count = Len(rows)
      ]_vars

\* C24 witness: product_search('coffee') found nothing and emptied the slot
\* that another call in flight had filled with its own products.
C24_Witness ==
    \E t, u \in Tasks :
        /\ t # u
        /\ pc[t] = "llm2_await" /\ pc[u] = "llm2_await"
        /\ sframe[u].own # <<>>
        /\ sframe[t].toolRan
        /\ sframe[t].tool_calls[2].args.search_term = Coffee
        /\ sframe[t].tool_messages[2].content =
               [text |-> "No products found matching", term |-> Coffee]
        /\ last_results = <<>>

\* C25: the stock-status label mapping is total over the integers: 0 gives
\* "Out of Stock", 1 "In Stock", 2 "Low Stock", 3 "Overstock" and every
\* other integer, negative or greater than 3, gives "Unknown".
C25_StatusLabelTotal ==
    ret.kind = "status_text" =>
        /\ ret.status \in Int
        /\ ret.status = 0 => ret.text = "Out of Stock"
        /\ ret.status = 1 => ret.text = "In Stock"
        /\ ret.status = 2 => ret.text = "Low Stock"
        /\ ret.status = 3 => ret.text = "Overstock"
        /\ (ret.status < 0 \/ ret.status > 3) => ret.text = "Unknown"

\* C25 witness: the mapping was applied to a negative code.
C25_Witness ==
    /\ ret.kind = "status_text"
    /\ ret.status < 0
    /\ ret.text = "Unknown"

\* C26: predict applies the preprocessor to the input exactly when the
\* preprocess flag is true and a preprocessor is configured; otherwise the
\* model gets the caller's input as it is; the record returned carries the
\* requested model_name and the model's prediction, confidence and metadata,
\* a key the model did not return being an absent field.
C26_PreprocessWhenAsked ==
    [][ /\ \A t \in Tasks :
              pc'[t] = "process_await" => (frame'[t].preprocess /\ preprocessor)
        /\ \A t \in Tasks :
              (pc'[t] = "predict_await" /\ pc[t] # "predict_await")
                  => frame'[t].input =
                         IF frame'[t].preprocess /\ preprocessor
                         THEN <<"processed", frame'[t].data>>
                         ELSE <<"raw", frame'[t].data>>
        /\ \A t \in Tasks, r \in ModelOutputs :
              (PredictResume(t, r) /\ op[t] = "predict")
                  => /\ Ends(t)
                     /\ ret'.kind = "PredictionResult"
                     /\ ret'.model_name = frame[t].name
                     /\ ret'.input = frame[t].input
                     /\ \A k \in {"prediction", "confidence", "metadata"} :
                           ret'[k] = IF k \in DOMAIN r THEN <<r[k]>> ELSE <<>>
      ]_vars

\* C26 witness: a predict whose input went through the preprocessor returned
\* a record without confidence and metadata, the model having returned none.
C26_Witness ==
    /\ ret.op = "predict" /\ ret.kind = "PredictionResult"
    /\ ret.model_name = "product_classifier"
    /\ ret.input = <<"processed", "milk.jpg">>
    /\ ret.prediction = <<"unknown_product">>
    /\ ret.confidence = <<>> /\ ret.metadata = <<>>

\* C27: in every reachable state of the registry every name with a cached
\* handle has a registered descriptor: is_loaded(name) implies get_info(name)
\* is present, and health_check never reports loaded with registered false.
C27_LoadedImpliesRegistered ==
    /\ \A n \in Names : is_loaded(n) => get_info(n) # <<>>
    /\ ret.kind = "health" => (ret.loaded => ret.registered)

\* C28: reload(name) unloads name and then loads it: the handle cached
\* before is gone as soon as reload runs; for an unregistered name the caller
\* gets the not-registered error; for a registered name a new instance is
\* constructed, and when its load routine returns, that instance is cached
\* and returned; when its load routine fails, the caller gets the failure and
\* is_loaded(name) is false.
C28_ReloadReplacesOrDrops ==
    [][ \A t \in Tasks :
            /\ \A n \in Names :
                  Reload(t, n)
                      => /\ n \notin DOMAIN loaded_models'
                         /\ n \notin DOMAIN registry
                               => (Ends(t) /\ ret'.kind = "KeyError")
                         /\ n \in DOMAIN registry
                               => /\ pc'[t] = "load_await"
                                  /\ frame'[t].inst = Len(instPath) + 1
                                  /\ \A m \in DOMAIN loaded_models :
                                        loaded_models[m] # frame'[t].inst
            /\ (LoadResume(t) /\ op[t] = "reload")
                  => /\ Ends(t)
                     /\ ret'.kind = "model"
                     /\ ret'.inst = frame[t].inst
                     /\ frame[t].name \in DOMAIN loaded_models'
                     /\ loaded_models'[frame[t].name] = ret'.inst
            /\ (LoadFails(t) /\ op[t] = "reload")
                  => /\ Ends(t)
                     /\ ret'.kind = "LoadFailure"
                     /\ frame[t].name \notin DOMAIN loaded_models'
      ]_vars

\* C29: when the LLM path fails after product_search has run in the turn
\* (the second LLM call raises, or a later product_search raises), the
\* products_found returned are those of the fallback's own store query for
\* the stripped term, not the tool's slot; no step of the failure handling
\* or of the fallback writes the slot, which for a call that overlapped no
\* other call still holds the tool's result when the call returns.
C29_FallbackAfterToolKeepsSlot ==
    [][ \A t \in Tasks :
            /\ (Llm2Fails(t) \/ ToolStoreFails(t) \/ FbStoreResume(t) \/ FbStoreFails(t))
                  => last_results' = last_results
            /\ (/\ Ends(t) /\ ret'.op = "search" /\ ret'.kind = "SearchResult"
                 /\ ret'.cause \in {"llm2", "tool_store"} /\ ret'.toolRan)
                  => LET term == FallbackTermOf[ret'.query]
                     IN  /\ ret'.products_found =
                                IF term = <<>> THEN <<>> ELSE SearchByNameOf[term]
                         /\ last_results' = last_results
                         /\ (ret'.serial /\ (ret'.cause = "llm2" \/ ret'.own # <<>>))
                               => last_results' = ret'.own
      ]_vars

\* C29 witness: the second LLM call of a call that had run product_search
\* raised; the call returned the fallback's products, which are not those the
\* tool left in the slot, and the slot still holds the tool's.
C29_Witness ==
    /\ ret.op = "search" /\ ret.kind = "SearchResult"
    /\ ret.cause = "llm2" /\ ret.toolRan
    /\ ret.products_found # <<>>
    /\ last_results # <<>>
    /\ last_results = ret.own
    /\ ret.products_found # last_results

\* The positions of the product_search invocations among calls
ProductSearches(calls) == {i \in 1..Len(calls) : calls[i].name = "product_search"}

\* The greatest element of a non-empty set of numbers
Last(S) == CHOOSE i \in S : \A j \in S : j <= i

\* The places where a call is suspended inside its tool loop
ToolAwaits == {"tool_store_await", "load_await", "process_await", "predict_await"}

\* C30: the invocations requested in a turn run one at a time in the order
\* requested: while invocation i runs, exactly the results of invocations
\* 1..i-1 exist, in that order, each with its invocation's id, and the tools
\* run so far ran in increasing position; a call that overlapped no other
\* call and requested product_search returns as products_found the store
\* result of the last product_search invocation alone.
C30_ToolsInOrderLastWins ==
    /\ \A t \in Tasks :
          (op[t] = "search" /\ pc[t] \in ToolAwaits \cup {"llm2_await"}) =>
              LET sf == sframe[t]
                  k == Len(sf.tool_messages)
              IN  /\ k = sf.idx - 1
                  /\ pc[t] = "llm2_await" => k = Len(sf.tool_calls)
                  /\ pc[t] \in ToolAwaits
                        => (sf.ran # <<>> /\ sf.ran[Len(sf.ran)] = sf.idx)
                  /\ \A j \in 1..(Len(sf.ran) - 1) : sf.ran[j] < sf.ran[j + 1]
                  /\ \A i \in 1..k :
                        /\ sf.tool_messages[i].tool_call_id = sf.tool_calls[i].id
                        /\ i \in ProductSearches(sf.tool_calls)
                              => sf.tool_messages[i].content =
                                     ProductSearchText(
                                         sf.tool_calls[i].args.search_term,
                                         SearchByNameOf[sf.tool_calls[i].args.search_term])
    /\ (/\ ret.op = "search" /\ ret.kind = "SearchResult" /\ ret.path = "llm"
        /\ ret.serial /\ ProductSearches(ret.tool_calls) # {})
          => ret.products_found =
                 SearchByNameOf[ret.tool_calls[Last(ProductSearches(ret.tool_calls))]
                                    .args.search_term]

\* C30 witness: a call that requested product_search twice returned the
\* one product of the second invocation, not the two of the first.
C30_Witness ==
    /\ ret.op = "search" /\ ret.kind = "SearchResult" /\ ret.path = "llm"
    /\ ret.serial
    /\ ProductSearches(ret.tool_calls) = {1, 2}
    /\ ret.ran = <<1, 2>>
    /\ Len(SearchByNameOf[ret.tool_calls[1].args.search_term]) = 2
    /\ Len(ret.products_found) = 1
    /\ ret.products_found = SearchByNameOf[ret.tool_calls[2].args.search_term]

====
